---- MODULE Spec2Model ----
(***************************************************************************)
(* liquid-layout: the constraint-modelling and solving pipeline.           *)
(*                                                                         *)
(* Measure and Prop nodes live in an arena and are identified by their     *)
(* address; LayoutBuilder collects widgets and constraints; build          *)
(* translates every constraint into a solver expression (memoised by node  *)
(* address), soft-asserts it, checks, paints the widgets with the model's  *)
(* values and classifies the constraints.                                  *)
(*                                                                         *)
(* Floats handed to new_const are written in thousandths (125 is 0.125);   *)
(* solver values are exact rationals <<numerator, denominator>> in lowest  *)
(* terms; a float handed to paint is held as the rational it is nearest    *)
(* to, its rounding error computed by F64Err.                              *)
(***************************************************************************)
EXTENDS Integers, Sequences, FiniteSets, TLC

\* ------------------------------------------------------------------ bounds
MaxWidgets == 2
MaxConstraints == 2
\* most Unbound nodes the arena may hold (the solver enumerates their values)
MaxVars == 4
\* solver values of free variables range over -1 .. MaxVal
MaxVal == 1
\* most rectangles nested by test_nesting_rectangles' loop
MaxNest == 2

\* ------------------------------------------------------- program constants
PoolSize == 16
DefaultWeight == 10
I32Max == 2147483647

\* ------------------------------------------------------------- arithmetic
Abs(x) == IF x < 0 THEN 0 - x ELSE x

RECURSIVE GCD(_, _)
GCD(a, b) == IF b = 0 THEN a ELSE GCD(b, a % b)

\* Rust `as i64` and integer division truncate toward zero.
TruncDiv(a, b) == IF a >= 0 THEN a \div b ELSE 0 - ((0 - a) \div b)

\* A rational in lowest terms with a positive denominator.
Norm(n, d) ==
  LET s == IF d < 0 THEN 0 - 1 ELSE 1
      g == GCD(Abs(n), Abs(d))
  IN  <<(s * n) \div g, (s * d) \div g>>

RAdd(x, y) == Norm(x[1] * y[2] + y[1] * x[2], x[2] * y[2])
RSub(x, y) == Norm(x[1] * y[2] - y[1] * x[2], x[2] * y[2])
RMul(x, y) == Norm(x[1] * y[1], x[2] * y[2])
\* Z3 leaves x / 0 to the model; its model completion gives 0.
RDiv(x, y) == IF y[1] = 0 THEN <<0, 1>> ELSE Norm(x[1] * y[2], x[2] * y[1])
RLt(x, y) == x[1] * y[2] < y[1] * x[2]
RLe(x, y) == x[1] * y[2] <= y[1] * x[2]
REq(x, y) == x[1] * y[2] = y[1] * x[2]

\* ------------------------------------------------------------------ arena
\* Addresses 0 .. PoolSize-1 are the static SMALL_MEASURE_CONSTS; the arena's
\* j-th allocation has address PoolSize + j - 1.
SMALL_MEASURE_CONSTS(index) == [k |-> "Const", num |-> index, den |-> 1]

Node(ar, addr) ==
  IF addr < PoolSize THEN SMALL_MEASURE_CONSTS(addr) ELSE ar[addr - PoolSize + 1]

\* A run of constructor calls is threaded through a frame: the arena, the
\* handles the calls returned so far (vals, in call order) and the first error.
Frame(ar) == [arena |-> ar, vals |-> <<>>, err |-> "None"]

Top(f) == f.vals[Len(f.vals)]

Return(f, h) == [f EXCEPT !.vals = Append(@, h)]

\* ctx.alloc.alloc(variant) for a MeasureVariant
AllocMeasure(f, variant) ==
  [f EXCEPT !.arena = Append(@, variant),
            !.vals = Append(@, [variant |-> PoolSize + Len(f.arena)])]

\* ctx.alloc.alloc(variant) for a PropVariant; every constructor sets weight 10
AllocProp(f, variant) ==
  [f EXCEPT !.arena = Append(@, variant),
            !.vals = Append(@, [variant |-> PoolSize + Len(f.arena),
                                weight |-> DefaultWeight])]

zero(f) == Return(f, [variant |-> 0])

\* GenericFraction::<i32>::from(value): the decimal digits of |value| over a
\* power of ten, reduced; no fraction when the digits do not fit an i32.
FractionFrom(cents) ==
  LET mag == Abs(cents)
      digits == IF mag % 100 = 0 THEN mag \div 100
                ELSE IF mag % 10 = 0 THEN mag \div 10 ELSE mag
      g == GCD(mag, 100)
  IN  IF digits > I32Max
        THEN [ok |-> FALSE, numer |-> 0, denom |-> 1]
        ELSE [ok |-> TRUE, numer |-> mag \div g, denom |-> 100 \div g]

\* The hundredths nearest to value, not the hundredths below it.
Cents_Rounded(value) == TruncDiv(value + 5, 10)

\* ((value * 100.0) as i64), value in thousandths
Cents(value) == TruncDiv(value, 10)

\* The MeasureVariant::Const new_const allocates outside the pool.
ConstVariant(frac, sign) ==
  [k |-> "Const", num |-> frac.numer * sign, den |-> frac.denom]

\* Measure::new_const(ctx, value), value in thousandths.
new_const(f, value) ==
  IF Cents(value) % 100 = 0 /\ Cents(value) >= 0
       /\ TruncDiv(Cents(value), 100) < PoolSize
    THEN Return(f, [variant |-> TruncDiv(Cents(value), 100)])
  ELSE IF ~FractionFrom(Cents(value)).ok
    THEN [f EXCEPT !.err = "BadConst"]
  ELSE AllocMeasure(f, ConstVariant(FractionFrom(Cents(value)),
                                    IF value < 0 THEN 0 - 1 ELSE 1))

new_unbound(f) == AllocMeasure(f, [k |-> "Unbound"])

is_unbound(ar, m) == Node(ar, m.variant).k = "Unbound"

MeasureAdd(f, self, other) ==
  AllocMeasure(f, [k |-> "Add", left |-> self, right |-> other])
MeasureSub(f, self, other) ==
  AllocMeasure(f, [k |-> "Sub", left |-> self, right |-> other])
MeasureMul(f, self, other) ==
  AllocMeasure(f, [k |-> "Mul", left |-> self, right |-> other])
MeasureDiv(f, self, other) ==
  AllocMeasure(f, [k |-> "Div", left |-> self, right |-> other])

prop_eq(f, self, that) ==
  AllocProp(f, [k |-> "Eq", left |-> self, right |-> that])
prop_lt(f, self, that) ==
  AllocProp(f, [k |-> "Lt", left |-> self, right |-> that])
prop_le(f, self, that) ==
  AllocProp(f, [k |-> "Le", left |-> self, right |-> that])
prop_gt(f, self, that) ==
  AllocProp(f, [k |-> "Gt", left |-> self, right |-> that])
prop_ge(f, self, that) ==
  AllocProp(f, [k |-> "Ge", left |-> self, right |-> that])

\* Prop::select(self, left, right)
select(f, self, left, right) ==
  AllocMeasure(f, [k |-> "Select", cond |-> self, left |-> left,
                   right |-> right])

\* the comparison just built, selected over
SelectTop(f, left, right) == select(f, Top(f), left, right)

\* Prop::with_weight
with_weight(self, weight) == [self EXCEPT !.weight = weight]

\* min selecting over the comparison max uses.
min_Gt(f, self, that) == SelectTop(prop_gt(f, self, that), self, that)

\* self.prop_lt(that).select(self, that)
min(f, self, that) == SelectTop(prop_lt(f, self, that), self, that)

\* self.prop_gt(that).select(self, that)
max(f, self, that) == SelectTop(prop_gt(f, self, that), self, that)

BitOr(f, self, that) ==
  AllocProp(f, [k |-> "Or", left |-> self, right |-> that])
BitAnd(f, self, that) ==
  AllocProp(f, [k |-> "And", left |-> self, right |-> that])
Not(f, self) == AllocProp(f, [k |-> "Not", that |-> self])

\* -------------------------------------------------------------- rectangle
\* The Rectangle whose fields are the frame's handles at the given positions
\* (left, right, top, bottom, width, height).
RectOf(f, at, painter) ==
  [arena |-> f.arena,
   rect |-> [left |-> f.vals[at[1]], right |-> f.vals[at[2]],
             top |-> f.vals[at[3]], bottom |-> f.vals[at[4]],
             width |-> f.vals[at[5]], height |-> f.vals[at[6]],
             painter |-> painter]]

\* Rectangle::with_width_and_height: four unbound edges, then the constant
\* sizes; the six handles in field order.
with_width_and_height(f, width, height) ==
  new_const(new_const(
    new_unbound(new_unbound(new_unbound(new_unbound(f)))), width), height)

\* Rectangle::unbound: six unbound measures.
unbound(f) ==
  new_unbound(new_unbound(
    new_unbound(new_unbound(new_unbound(new_unbound(f))))))

\* measures() declaring the sizes before the edges.
RectMeasures_SizesFirst(self) ==
  <<self.width, self.height, self.left, self.right, self.top, self.bottom>>

\* impl RawWidget for Rectangle: measures()
RectMeasures(self) ==
  <<self.left, self.right, self.top, self.bottom, self.width, self.height>>

\* the sum just built, compared with that
EqTop(f, that) == prop_eq(f, Top(f), that)

\* self compared with the constant just built
GeTop(f, self) == prop_ge(f, self, Top(f))

\* left + height == right
LeftWidthIsRight_Height(f, self) ==
  EqTop(MeasureAdd(f, self.left, self.height), self.right)

\* top + height >= bottom
TopHeightIsBottom_AtLeast(f, self) ==
  prop_ge(MeasureAdd(f, self.top, self.height),
          [variant |-> PoolSize + Len(f.arena)], self.bottom)

\* impl RawWidget for Rectangle: constraints(), one operator per element of
\* the vec!; every call allocates new nodes.
LeftWidthIsRight(f, self) ==
  EqTop(MeasureAdd(f, self.left, self.width), self.right)
TopHeightIsBottom(f, self) ==
  EqTop(MeasureAdd(f, self.top, self.height), self.bottom)
TopGeZero(f, self) == GeTop(zero(f), self.top)
LeftGeZero(f, self) == GeTop(zero(f), self.left)
WidthGeZero(f, self) == GeTop(new_const(f, 0), self.width)
HeightGeZero(f, self) == GeTop(new_const(f, 0), self.height)

\* The propositions among the handles a frame holds.
Props(f) ==
  SelectSeq(f.vals, LAMBDA h : "weight" \in DOMAIN h)

RectConstraints(f, self) ==
  HeightGeZero(WidthGeZero(LeftGeZero(TopGeZero(
    TopHeightIsBottom(LeftWidthIsRight(f, self), self), self), self), self),
    self)

\* impl RawWidget for Rectangle: paint(measures) builds the metrics handed to
\* the painter closure, whose result is paint's result.
RectPaint(self, measures, answer) ==
  [metrics |-> [left |-> measures[1], right |-> measures[2],
                top |-> measures[3], bottom |-> measures[4],
                width |-> measures[5], height |-> measures[6]],
   result |-> answer]

\* ------------------------------------------------------------ translation
\* Z3BuildContext::new: empty caches; asts is the solver context's list of
\* expressions made through its construction API, in creation order.
NoCache == [x \in {} |-> 0]

Z3BuildContextNew == [prop_cache |-> NoCache, measure_cache |-> NoCache,
                      asts |-> <<>>]

\* One call of the solver's construction API.
Z3Make(bc, op, a, b, c) ==
  [bc |-> [bc EXCEPT !.asts = Append(@, [op |-> op, a |-> a, b |-> b, c |-> c])],
   res |-> Len(bc.asts) + 1]

NumFresh(asts) == Cardinality({h \in 1..Len(asts) : asts[h].op = "fresh"})

MeasureOp(k) ==
  CASE k = "Add" -> "add" [] k = "Sub" -> "sub" [] k = "Mul" -> "mul"
    [] k = "Div" -> "div"

PropOp(k) ==
  CASE k = "Eq" -> "eq" [] k = "Lt" -> "lt" [] k = "Le" -> "le"
    [] k = "Gt" -> "gt" [] k = "Ge" -> "ge" [] k = "Or" -> "or"
    [] k = "And" -> "and"

\* build_ctx.measure_cache.insert(key, res.clone())
InsertMeasure(r, key) ==
  [bc |-> [r.bc EXCEPT !.measure_cache = @ @@ (key :> r.res)], res |-> r.res]

\* build_ctx.prop_cache.insert(key, res.clone())
InsertProp(r, key) ==
  [bc |-> [r.bc EXCEPT !.prop_cache = @ @@ (key :> r.res)], res |-> r.res]

RECURSIVE MeasureBuildZ3(_, _, _), MeasureDoBuildZ3(_, _, _)
RECURSIVE PropBuildZ3(_, _, _), PropDoBuildZ3(_, _, _)

\* build_z3 without the cache lookup.
MeasureBuildZ3_NoLookup(ar, bc, self) ==
  InsertMeasure(MeasureDoBuildZ3(ar, bc, self), self.variant)

\* Measure::build_z3: look the node's address up, else translate and insert.
MeasureBuildZ3(ar, bc, self) ==
  LET key == self.variant IN
  IF key \in DOMAIN bc.measure_cache
    THEN [bc |-> bc, res |-> bc.measure_cache[key]]
    ELSE InsertMeasure(MeasureDoBuildZ3(ar, bc, self), key)

\* Measure::do_build_z3
MeasureDoBuildZ3(ar, bc, self) ==
  LET v == Node(ar, self.variant) IN
  CASE v.k = "Unbound" -> Z3Make(bc, "fresh", NumFresh(bc.asts) + 1, 0, 0)
    [] v.k = "Const" -> Z3Make(bc, "real", v.num, v.den, 0)
    [] v.k \in {"Add", "Sub", "Mul", "Div"} ->
         LET l == MeasureBuildZ3(ar, bc, v.left)
             r == MeasureBuildZ3(ar, l.bc, v.right)
         IN  Z3Make(r.bc, MeasureOp(v.k), l.res, r.res, 0)
    [] v.k = "Select" ->
         LET c == PropBuildZ3(ar, bc, v.cond)
             l == MeasureBuildZ3(ar, c.bc, v.left)
             r == MeasureBuildZ3(ar, l.bc, v.right)
         IN  Z3Make(r.bc, "ite", c.res, l.res, r.res)

\* Prop::build_z3
PropBuildZ3(ar, bc, self) ==
  LET key == self.variant IN
  IF key \in DOMAIN bc.prop_cache
    THEN [bc |-> bc, res |-> bc.prop_cache[key]]
    ELSE InsertProp(PropDoBuildZ3(ar, bc, self), key)

\* Prop::do_build_z3
PropDoBuildZ3(ar, bc, self) ==
  LET v == Node(ar, self.variant) IN
  CASE v.k \in {"Eq", "Lt", "Le", "Gt", "Ge"} ->
         LET l == MeasureBuildZ3(ar, bc, v.left)
             r == MeasureBuildZ3(ar, l.bc, v.right)
         IN  Z3Make(r.bc, PropOp(v.k), l.res, r.res, 0)
    [] v.k \in {"Or", "And"} ->
         LET l == PropBuildZ3(ar, bc, v.left)
             r == PropBuildZ3(ar, l.bc, v.right)
         IN  Z3Make(r.bc, PropOp(v.k), l.res, r.res, 0)
    [] v.k = "Not" ->
         LET t == PropBuildZ3(ar, bc, v.that)
         IN  Z3Make(t.bc, "not", t.res, 0, 0)

\* ----------------------------------------------------------------- solver
\* The solver is consumed through assert_soft, check, get_model and eval.
\* A model assigns a value to every free real variable.
Dom == (0 - 1)..MaxVal

\* A layout with more variables than MaxVars is a nest of unbound
\* rectangles; its grid has room for MaxNest of them, each wider than 3 and
\* strictly inside the one before.
Grid(asts) ==
  IF NumFresh(asts) > MaxVars THEN (0 - 1)..(4 + 2 * (MaxNest - 1)) ELSE Dom

Models(asts) == [1..NumFresh(asts) -> Grid(asts)]

RECURSIVE EvalReal(_, _, _), EvalBool(_, _, _)

\* model.eval on a Real, as the rational as_real returns
EvalReal(asts, mdl, h) ==
  LET e == asts[h] IN
  CASE e.op = "fresh" -> <<mdl[e.a], 1>>
    [] e.op = "real" -> Norm(e.a, e.b)
    [] e.op = "add" -> RAdd(EvalReal(asts, mdl, e.a), EvalReal(asts, mdl, e.b))
    [] e.op = "sub" -> RSub(EvalReal(asts, mdl, e.a), EvalReal(asts, mdl, e.b))
    [] e.op = "mul" -> RMul(EvalReal(asts, mdl, e.a), EvalReal(asts, mdl, e.b))
    [] e.op = "div" -> RDiv(EvalReal(asts, mdl, e.a), EvalReal(asts, mdl, e.b))
    [] e.op = "ite" -> IF EvalBool(asts, mdl, e.a)
                         THEN EvalReal(asts, mdl, e.b)
                         ELSE EvalReal(asts, mdl, e.c)

\* model.eval on a Bool
EvalBool(asts, mdl, h) ==
  LET e == asts[h] IN
  CASE e.op = "eq" -> REq(EvalReal(asts, mdl, e.a), EvalReal(asts, mdl, e.b))
    [] e.op = "lt" -> RLt(EvalReal(asts, mdl, e.a), EvalReal(asts, mdl, e.b))
    [] e.op = "le" -> RLe(EvalReal(asts, mdl, e.a), EvalReal(asts, mdl, e.b))
    [] e.op = "gt" -> RLt(EvalReal(asts, mdl, e.b), EvalReal(asts, mdl, e.a))
    [] e.op = "ge" -> RLe(EvalReal(asts, mdl, e.b), EvalReal(asts, mdl, e.a))
    [] e.op = "or" -> EvalBool(asts, mdl, e.a) \/ EvalBool(asts, mdl, e.b)
    [] e.op = "and" -> EvalBool(asts, mdl, e.a) /\ EvalBool(asts, mdl, e.b)
    [] e.op = "not" -> ~EvalBool(asts, mdl, e.a)

\* Total weight of the soft assertions a model satisfies.
RECURSIVE SatWeight(_, _, _)
SatWeight(asts, soft, mdl) ==
  IF soft = <<>> THEN 0
  ELSE (IF EvalBool(asts, mdl, Head(soft).ast) THEN Head(soft).weight ELSE 0)
       + SatWeight(asts, Tail(soft), mdl)

\* The free variables of an expression.
RECURSIVE FreeVars(_, _)
FreeVars(asts, h) ==
  CASE asts[h].op = "fresh" -> {asts[h].a}
    [] asts[h].op = "real" -> {}
    [] asts[h].op = "not" -> FreeVars(asts, asts[h].a)
    [] asts[h].op = "ite" -> FreeVars(asts, asts[h].a)
                               \cup FreeVars(asts, asts[h].b)
                               \cup FreeVars(asts, asts[h].c)
    [] OTHER -> FreeVars(asts, asts[h].a) \cup FreeVars(asts, asts[h].b)

\* The variables that soft assertions tie, directly or not, to those of vs.
RECURSIVE Linked(_, _, _)
Linked(asts, soft, vs) ==
  IF \A j \in 1..Len(soft) :
       FreeVars(asts, soft[j].ast) \cap vs # {} =>
         FreeVars(asts, soft[j].ast) \subseteq vs
    THEN vs
    ELSE Linked(asts, soft,
                vs \cup UNION {FreeVars(asts, soft[j].ast) :
                                 j \in {i \in 1..Len(soft) :
                                          FreeVars(asts, soft[i].ast) \cap vs
                                            # {}}})

\* Model m with the variables of a set as a sets them.
Over(m, a) == [v \in DOMAIN m |-> IF v \in DOMAIN a THEN a[v] ELSE m[v]]

\* The assignments to the variables vs of greatest satisfied weight among
\* the assertions that mention them: W pairs each assignment with its weight.
BestOf(asts, soft, vs) ==
  UNION {UNION {UNION {{p[1] : p \in {q \in W : q[2] = best}} :
                         best \in {CHOOSE w \in {r[2] : r \in W} :
                                      \A r \in W : r[2] <= w}} :
                  W \in {{<<a, SatWeight(asts, sub,
                                         Over([v \in 1..NumFresh(asts) |-> 0],
                                              a))>> :
                            a \in [vs -> Grid(asts)]}}} :
           sub \in {SelectSeq(soft, LAMBDA s :
                                FreeVars(asts, s.ast) \cap vs # {})}}

\* The models in acc, optimal on the variables done, made optimal on the
\* variables linked to the least of those left in todo, and so on.
RECURSIVE OptimalFrom(_, _, _, _)
OptimalFrom(asts, soft, todo, acc) ==
  IF todo = {} THEN acc
  ELSE OptimalFrom(asts, soft,
         todo \ Linked(asts, soft,
                       {CHOOSE v \in todo : \A u \in todo : v <= u}),
         {Over(m, a) :
            m \in acc,
            a \in BestOf(asts, soft,
                         Linked(asts, soft,
                                {CHOOSE v \in todo : \A u \in todo : v <= u}))})

\* Optimize::check with soft assertions only: the models of greatest
\* satisfied weight. The weight is a sum over the assertions, so these are
\* the models optimal on each set of linked variables.
OptimalModels(asts, soft) ==
  OptimalFrom(asts, soft, 1..NumFresh(asts),
              {[v \in 1..NumFresh(asts) |-> 0]})

\* An expression without free variables.
RECURSIVE Ground(_, _)
Ground(asts, h) ==
  LET e == asts[h] IN
  CASE e.op = "fresh" -> FALSE
    [] e.op = "real" -> TRUE
    [] e.op = "not" -> Ground(asts, e.a)
    [] e.op = "ite" -> Ground(asts, e.a) /\ Ground(asts, e.b) /\ Ground(asts, e.c)
    [] OTHER -> Ground(asts, e.a) /\ Ground(asts, e.b)

\* Linear real arithmetic, which the solver decides: products with a ground
\* factor, quotients with a ground divisor.
RECURSIVE Linear(_, _)
Linear(asts, h) ==
  LET e == asts[h] IN
  CASE e.op \in {"fresh", "real"} -> TRUE
    [] e.op = "not" -> Linear(asts, e.a)
    [] e.op = "ite" -> Linear(asts, e.a) /\ Linear(asts, e.b) /\ Linear(asts, e.c)
    [] e.op = "mul" -> Linear(asts, e.a) /\ Linear(asts, e.b)
                         /\ (Ground(asts, e.a) \/ Ground(asts, e.b))
    [] e.op = "div" -> Linear(asts, e.a) /\ Linear(asts, e.b) /\ Ground(asts, e.b)
    [] OTHER -> Linear(asts, e.a) /\ Linear(asts, e.b)

Decidable(asts, soft) == \A j \in 1..Len(soft) : Linear(asts, soft[j].ast)

\* ----------------------------------------------------------- caller inputs
\* Rectangles as callers construct them: with_width_and_height, optionally
\* followed by assignments to the public fields.
Shapes ==
  {[kind |-> "sized", w |-> 1000, h |-> 1000, a |-> 0, b |-> 0],
   [kind |-> "sized", w |-> 1005, h |-> 1000, a |-> 0, b |-> 0],
   [kind |-> "placed", w |-> 0, h |-> 1000, a |-> 0, b |-> 1000],
   [kind |-> "squeezed", w |-> 1000, h |-> 2000, a |-> 0, b |-> 1000],
   [kind |-> "span", w |-> 4000, h |-> 0, a |-> 3000, b |-> 7000],
   [kind |-> "fine", w |-> 125, h |-> 1000, a |-> 20, b |-> 140]}

\* a.min(b) then a.max(b) of the measures a and b a frame holds at i and i + 1
MinMaxAt(f, i) ==
  max(min(f, f.vals[i], f.vals[i + 1]), f.vals[i], f.vals[i + 1])

MakeRect(ar, shape) ==
  CASE shape.kind = "sized" ->
         RectOf(with_width_and_height(Frame(ar), shape.w, shape.h),
                <<1, 2, 3, 4, 5, 6>>, "painter")
    [] shape.kind = "placed" ->
         \* rect.top = new_const(a); rect.left = new_const(b)
         RectOf(new_const(new_const(
                  with_width_and_height(Frame(ar), shape.w, shape.h),
                  shape.a), shape.b),
                <<8, 2, 7, 4, 5, 6>>, "painter")
    [] shape.kind = "squeezed" ->
         \* rect.top = new_const(a); rect.bottom = new_const(b)
         RectOf(new_const(new_const(
                  with_width_and_height(Frame(ar), shape.w, shape.h),
                  shape.a), shape.b),
                <<1, 2, 7, 8, 5, 6>>, "painter")
    [] shape.kind = "span" ->
         \* rect.left = a.min(b); rect.right = a.max(b), a and b constants;
         \* rect.top = u.min(v); rect.bottom = u.max(v), u and v unbound
         RectOf(MinMaxAt(new_unbound(new_unbound(
                  MinMaxAt(new_const(new_const(
                    with_width_and_height(Frame(ar), shape.w, shape.h),
                    shape.a), shape.b), 7))), 13),
                <<10, 12, 16, 18, 5, 6>>, "painter")
    [] shape.kind = "fine" ->
         \* rect.left = new_const(a); rect.right = new_const(b)
         RectOf(new_const(new_const(
                  with_width_and_height(Frame(ar), shape.w, shape.h),
                  shape.a), shape.b),
                <<7, 8, 3, 4, 5, 6>>, "painter")

\* The Unbound nodes a measure reaches.
RECURSIVE MeasureVars(_, _), PropVars(_, _)
MeasureVars(ar, m) ==
  LET v == Node(ar, m.variant) IN
  CASE v.k = "Unbound" -> {m.variant}
    [] v.k = "Const" -> {}
    [] v.k = "Select" -> PropVars(ar, v.cond) \cup MeasureVars(ar, v.left)
                           \cup MeasureVars(ar, v.right)
    [] OTHER -> MeasureVars(ar, v.left) \cup MeasureVars(ar, v.right)

PropVars(ar, p) ==
  LET v == Node(ar, p.variant) IN
  CASE v.k = "Not" -> PropVars(ar, v.that)
    [] v.k \in {"Or", "And"} -> PropVars(ar, v.left) \cup PropVars(ar, v.right)
    [] OTHER -> MeasureVars(ar, v.left) \cup MeasureVars(ar, v.right)

RectVars(ar, rect) ==
  UNION {MeasureVars(ar, RectMeasures(rect)[j]) : j \in 1..6}

\* ------------------------------------------------------------------ state
VARIABLES
  arena,                    \* LayoutContext.alloc: the nodes, by allocation
  widgets,                  \* LayoutBuilder.widgets
  constraints,              \* LayoutBuilder.constraints
  pushes,                   \* the push_* calls so far, with what was pushed
  pc,                       \* Collecting, Checking, Painting, Solved, Failed
  build_constraints,        \* build's local `constraints`
  build_context,            \* build's Z3BuildContext
  soft,                     \* the Optimize's soft assertions
  check_res,                \* what opt.check returned
  model,                    \* the model of a Sat check
  next_widget,              \* position of build's loop over self.widgets
  painted,                  \* the paint calls made, in order
  result,                   \* what build returned
  satisfied_constraints,    \* BuildReport.satisfied_constraints
  unsatisfied_constraints   \* BuildReport.unsatisfied_constraints

builder_vars == <<widgets, constraints, pushes>>
build_vars == <<build_constraints, build_context, soft, check_res, model,
                next_widget,
                painted, result, satisfied_constraints,
                unsatisfied_constraints>>
vars == <<arena, builder_vars, pc, build_vars>>

\* LayoutContext::new and LayoutBuilder::new
Init ==
  /\ arena = <<>>
  /\ widgets = <<>>
  /\ constraints = <<>>
  /\ pushes = <<>>
  /\ pc = "Collecting"
  /\ build_constraints = <<>>
  /\ build_context = Z3BuildContextNew
  /\ soft = <<>>
  /\ check_res = "None"
  /\ model = <<>>
  /\ next_widget = 1
  /\ painted = <<>>
  /\ result = "None"
  /\ satisfied_constraints = <<>>
  /\ unsatisfied_constraints = <<>>

\* LayoutBuilder::push_widget of a rectangle the caller has just constructed
PushWidget ==
  /\ pc = "Collecting"
  /\ Len(widgets) < MaxWidgets
  /\ \E shape \in Shapes : \E r \in {MakeRect(arena, shape)} :
       /\ Cardinality(RectVars(r.arena, r.rect)
            \cup UNION {RectVars(arena, widgets[j]) : j \in 1..Len(widgets)})
            <= MaxVars
       /\ arena' = r.arena
       /\ widgets' = Append(widgets, r.rect)
       /\ pushes' = Append(pushes, [call |-> "push_widget", arg |-> shape])
  /\ UNCHANGED <<constraints, pc, build_vars>>

\* self compared with the constant just built
LtTop(f, self) == prop_lt(f, self, Top(f))

\* the product built first, compared with the constant built second
EqFirstTwo(f) == prop_eq(f, f.vals[1], f.vals[2])

\* Propositions callers build over a rectangle's measures.
MakeProp(ar, rect, kind) ==
  CASE kind = "bottom_lt" ->
         \* rect.bottom.prop_lt(new_const(1.0))
         LtTop(new_const(Frame(ar), 1000), rect.bottom)
    [] kind = "area_eq" ->
         \* (rect.right * rect.bottom).prop_eq(new_const(1.0))
         EqFirstTwo(new_const(
           MeasureMul(Frame(ar), rect.right, rect.bottom), 1000))

\* LayoutBuilder::push_constraint of a proposition newly built over the
\* newest rectangle
PushConstraint ==
  /\ pc = "Collecting"
  /\ Len(constraints) < MaxConstraints
  /\ widgets # <<>>
  /\ \E kind \in {"bottom_lt", "area_eq"} :
       \E c \in {MakeProp(arena, widgets[Len(widgets)], kind)} :
         /\ arena' = c.arena
         /\ constraints' = Append(constraints, Top(c))
         /\ pushes' = Append(pushes, [call |-> "push_constraint",
                                      arg |-> Top(c)])
  /\ UNCHANGED <<widgets, pc, build_vars>>

\* LayoutBuilder::push_constraint of a proposition pushed before (Prop is Copy)
PushConstraintAgain ==
  /\ pc = "Collecting"
  /\ Len(constraints) < MaxConstraints
  /\ \E j \in 1..Len(constraints) :
       /\ constraints' = Append(constraints, constraints[j])
       /\ pushes' = Append(pushes, [call |-> "push_constraint",
                                    arg |-> constraints[j]])
  /\ UNCHANGED <<arena, widgets, pc, build_vars>>

\* ------------------------------------------------------------------ build
\* self.widgets.iter().map(|x| x.constraints()).flatten(): each widget's
\* constraints() in push order, allocating as it goes.
RECURSIVE WidgetConstraints(_, _, _)
WidgetConstraints(f, ws, j) ==
  IF j > Len(ws) THEN f
  ELSE WidgetConstraints(RectConstraints(f, ws[j]), ws, j + 1)

\* The explicit constraints chained before the widgets' constraints.
Chain_ExplicitFirst(f, cs) == [arena |-> f.arena, props |-> cs \o Props(f)]

\* .chain(self.constraints.iter().copied()).collect()
Chain(f, cs) == [arena |-> f.arena, props |-> Props(f) \o cs]

CollectConstraints(ar, ws, cs) ==
  Chain(WidgetConstraints(Frame(ar), ws, 1), cs)

\* An assert_soft that gives every constraint the default weight.
AssertSoft_DefaultWeight(t, sf, c) ==
  [bc |-> t.bc, soft |-> Append(sf, [ast |-> t.res, weight |-> DefaultWeight])]

\* opt.assert_soft(&ast, c.weight, None)
AssertSoft(t, sf, c) ==
  [bc |-> t.bc, soft |-> Append(sf, [ast |-> t.res, weight |-> c.weight])]

\* for c in &constraints { opt.assert_soft(&c.build_z3(..)?, c.weight, None) }
\* Each turn finishes its assertion before the next constraint is taken: the
\* test on a.soft has the assertions made so far evaluated at every turn.
RECURSIVE AssertSoftAll(_, _, _, _)
AssertSoftAll(ar, a, cs, j) ==
  IF j > Len(cs) \/ Len(a.soft) > Len(cs) THEN a
  ELSE AssertSoftAll(ar, AssertSoft(PropBuildZ3(ar, a.bc, cs[j]), a.soft, cs[j]),
                     cs, j + 1)

\* build up to the check: a fresh context, the gathered constraints asserted.
BuildAssert ==
  /\ pc = "Collecting"
  /\ \E g \in {CollectConstraints(arena, widgets, constraints)} :
       \E a \in {AssertSoftAll(g.arena,
                               [bc |-> Z3BuildContextNew, soft |-> <<>>],
                               g.props, 1)} :
         /\ arena' = g.arena
         /\ build_constraints' = g.props
         /\ build_context' = a.bc
         /\ soft' = a.soft
  /\ pc' = "Checking"
  /\ UNCHANGED <<builder_vars, check_res, model, next_widget, painted, result,
                 satisfied_constraints, unsatisfied_constraints>>

\* A match that lets Unknown through like Sat.
MatchCheckRes_UnknownGoesOn(res) ==
  CASE res = "Sat" -> [pc |-> "Painting", result |-> "None"]
    [] res = "Unsat" -> [pc |-> "Failed", result |-> "Unsat"]
    [] res = "Unknown" -> [pc |-> "Painting", result |-> "None"]

\* match check_res: Sat goes on, Unsat and Unknown return the error
MatchCheckRes(res) ==
  CASE res = "Sat" -> [pc |-> "Painting", result |-> "None"]
    [] res = "Unsat" -> [pc |-> "Failed", result |-> "Unsat"]
    [] res = "Unknown" -> [pc |-> "Failed", result |-> "Unknown"]

\* opt.check(&[]) returns Sat; opt.get_model()
CheckSat ==
  /\ pc = "Checking"
  /\ \E m \in OptimalModels(build_context.asts, soft) : model' = m
  /\ check_res' = "Sat"
  /\ pc' = MatchCheckRes("Sat").pc
  /\ result' = MatchCheckRes("Sat").result
  /\ UNCHANGED <<arena, builder_vars, build_constraints, build_context, soft,
                 next_widget, painted, satisfied_constraints,
                 unsatisfied_constraints>>

\* opt.check(&[]) returns Unsat: outside linear arithmetic the solver's
\* verdict is its own
CheckUnsat ==
  /\ pc = "Checking"
  /\ ~Decidable(build_context.asts, soft)
  /\ check_res' = "Unsat"
  /\ pc' = MatchCheckRes("Unsat").pc
  /\ result' = MatchCheckRes("Unsat").result
  /\ UNCHANGED <<arena, builder_vars, build_constraints, build_context, soft,
                 model, next_widget, painted, satisfied_constraints,
                 unsatisfied_constraints>>

\* opt.check(&[]) returns Unknown
CheckUnknown ==
  /\ pc = "Checking"
  /\ ~Decidable(build_context.asts, soft)
  /\ check_res' = "Unknown"
  /\ pc' = MatchCheckRes("Unknown").pc
  /\ result' = MatchCheckRes("Unknown").result
  /\ UNCHANGED <<arena, builder_vars, build_constraints, build_context, soft,
                 model, next_widget, painted, satisfied_constraints,
                 unsatisfied_constraints>>

\* A refinement that reads its values off another model than the check's.
PushValue_OtherModel(t, mdl, values) ==
  [bc |-> t.bc,
   values |-> Append(values,
                Norm(EvalReal(t.bc.asts, [v \in DOMAIN mdl |-> 0], t.res)[1],
                     EvalReal(t.bc.asts, [v \in DOMAIN mdl |-> 0], t.res)[2]))]

\* refined_values.push(num as f64 / den as f64) of the value model.eval gives
PushValue(t, mdl, values) ==
  [bc |-> t.bc,
   values |-> Append(values, Norm(EvalReal(t.bc.asts, mdl, t.res)[1],
                                  EvalReal(t.bc.asts, mdl, t.res)[2]))]

\* for m in measures { model.eval(&m.build_z3(..)?) ... }, one value pushed
\* per turn and evaluated before the next measure is taken.
RECURSIVE RefineValues(_, _, _, _, _)
RefineValues(ar, r, mdl, measures, j) ==
  IF j > Len(measures) \/ Len(r.values) > Len(measures) THEN r
  ELSE RefineValues(ar,
         PushValue(MeasureBuildZ3(ar, r.bc, measures[j]), mdl, r.values),
         mdl, measures, j + 1)

\* A dispatch that drops paint's result instead of returning its error.
AfterPaint_ErrDropped(answer) ==
  [pc |-> "Painting", result |-> "None", step |-> 1]

\* w.paint(&refined_values)?: Ok goes on to the next widget, Err returns it
AfterPaint(answer) ==
  IF answer = "Ok"
    THEN [pc |-> "Painting", result |-> "None", step |-> 1]
    ELSE [pc |-> "Failed", result |-> "PaintErr", step |-> 0]

\* One turn of `for w in self.widgets`: resolve its measures, paint it; the
\* painter closure answers Ok or Err.
Paint ==
  /\ pc = "Painting"
  /\ next_widget <= Len(widgets)
  /\ \E r \in {RefineValues(arena, [bc |-> build_context, values |-> <<>>],
                            model, RectMeasures(widgets[next_widget]), 1)} :
     \E answer \in {"Ok", "Err"} :
     \E p \in {RectPaint(widgets[next_widget], r.values, answer)} :
       /\ build_context' = r.bc
       /\ painted' = Append(painted, [widget |-> next_widget,
                                      values |-> r.values,
                                      metrics |-> p.metrics,
                                      result |-> p.result])
       /\ pc' = AfterPaint(p.result).pc
       /\ result' = AfterPaint(p.result).result
       /\ next_widget' = next_widget + AfterPaint(p.result).step
  /\ UNCHANGED <<arena, builder_vars, build_constraints, soft, check_res,
                 model, satisfied_constraints, unsatisfied_constraints>>

\* PushClassified without its else branch.
PushClassified_NoElse(t, mdl, r, c) ==
  IF ~EvalBool(t.bc.asts, mdl, t.res)
    THEN [bc |-> t.bc, sat |-> r.sat, unsat |-> Append(r.unsat, c)]
    ELSE [bc |-> t.bc, sat |-> r.sat, unsat |-> r.unsat]

\* if !value { unsatisfied_constraints.push(*c) } else { satisfied_..push(*c) }
PushClassified(t, mdl, r, c) ==
  IF ~EvalBool(t.bc.asts, mdl, t.res)
    THEN [bc |-> t.bc, sat |-> r.sat, unsat |-> Append(r.unsat, c)]
    ELSE [bc |-> t.bc, sat |-> Append(r.sat, c), unsat |-> r.unsat]

\* for c in &constraints { model.eval(&c.build_z3(..)?) ... }, one constraint
\* classified per turn and evaluated before the next one is taken.
RECURSIVE Classify(_, _, _, _, _)
Classify(ar, r, mdl, cs, j) ==
  IF j > Len(cs) \/ Len(r.sat) + Len(r.unsat) > Len(cs) THEN r
  ELSE Classify(ar,
         PushClassified(PropBuildZ3(ar, r.bc, cs[j]), mdl, r, cs[j]),
         mdl, cs, j + 1)

\* build after the last paint: classify the constraints, return the report
BuildReport ==
  /\ pc = "Painting"
  /\ next_widget > Len(widgets)
  /\ \E r \in {Classify(arena, [bc |-> build_context, sat |-> <<>>,
                                unsat |-> <<>>],
                        model, build_constraints, 1)} :
       /\ build_context' = r.bc
       /\ satisfied_constraints' = r.sat
       /\ unsatisfied_constraints' = r.unsat
  /\ result' = "Report"
  /\ pc' = "Solved"
  /\ UNCHANGED <<arena, builder_vars, build_constraints, soft, check_res,
                 model, next_widget, painted>>

Next ==
  \/ PushWidget
  \/ PushConstraint
  \/ PushConstraintAgain
  \/ BuildAssert
  \/ CheckSat
  \/ CheckUnsat
  \/ CheckUnknown
  \/ Paint
  \/ BuildReport

Spec == Init /\ [][Next]_vars

\* ------------------------------------------------------------- properties
\* Rectangle::constraints returns six propositions (the vec! of rectangle.rs).
ConstraintsPerRect == 6

Range(s) == {s[j] : j \in DOMAIN s}

\* How many times x occurs in s.
Count(s, x) == Cardinality({j \in DOMAIN s : s[j] = x})

\* The value the model of the check gives a translated measure.
ValueOf(m) ==
  EvalReal(build_context.asts, model, build_context.measure_cache[m.variant])

\* Whether the model of the check makes a translated proposition true.
Holds(p) ==
  EvalBool(build_context.asts, model, build_context.prop_cache[p.variant])

\* The node of a handle, and whether it is the constant num/den.
NodeOf(h) == Node(arena, h.variant)

IsConst(m, num, den) == NodeOf(m) = [k |-> "Const", num |-> num, den |-> den]

\* p is the k-th proposition Rectangle::constraints returns for rect.
IsRectConstraint(rect, k, p) ==
  /\ p.weight = DefaultWeight
  /\ CASE k = 1 -> /\ NodeOf(p).k = "Eq"
                   /\ NodeOf(NodeOf(p).left) =
                        [k |-> "Add", left |-> rect.left, right |-> rect.width]
                   /\ NodeOf(p).right = rect.right
       [] k = 2 -> /\ NodeOf(p).k = "Eq"
                   /\ NodeOf(NodeOf(p).left) =
                        [k |-> "Add", left |-> rect.top, right |-> rect.height]
                   /\ NodeOf(p).right = rect.bottom
       [] k = 3 -> /\ NodeOf(p).k = "Ge" /\ NodeOf(p).left = rect.top
                   /\ IsConst(NodeOf(p).right, 0, 1)
       [] k = 4 -> /\ NodeOf(p).k = "Ge" /\ NodeOf(p).left = rect.left
                   /\ IsConst(NodeOf(p).right, 0, 1)
       [] k = 5 -> /\ NodeOf(p).k = "Ge" /\ NodeOf(p).left = rect.width
                   /\ IsConst(NodeOf(p).right, 0, 1)
       [] k = 6 -> /\ NodeOf(p).k = "Ge" /\ NodeOf(p).left = rect.height
                   /\ IsConst(NodeOf(p).right, 0, 1)

\* build_constraints is what was submitted: the constraints() of each widget
\* in push order, then the pushed constraints in push order.
WidgetsThenExplicit ==
  /\ Len(build_constraints) =
       ConstraintsPerRect * Len(widgets) + Len(constraints)
  /\ \A j \in 1..Len(widgets) : \A k \in 1..ConstraintsPerRect :
       IsRectConstraint(widgets[j], k,
                        build_constraints[ConstraintsPerRect * (j - 1) + k])
  /\ \A j \in 1..Len(constraints) :
       build_constraints[ConstraintsPerRect * Len(widgets) + j] = constraints[j]

\* The build has passed a Sat check.
SatOutcome == check_res = "Sat"

\* build has returned.
Returned == pc \in {"Solved", "Failed"}

\* C1: when build returns a report, every constraint submitted to the solve
\* (each widget's constraints() and each pushed constraint) is in exactly one
\* of the satisfied and unsatisfied lists, once per submitted occurrence, and
\* the lists hold nothing else.
C1_ReportPartitionsSubmitted ==
  result = "Report" =>
    /\ WidgetsThenExplicit
    /\ Len(satisfied_constraints) + Len(unsatisfied_constraints) =
         Len(build_constraints)
    /\ \A p \in Range(build_constraints) \cup Range(satisfied_constraints)
                  \cup Range(unsatisfied_constraints) :
         Count(satisfied_constraints, p) + Count(unsatisfied_constraints, p) =
           Count(build_constraints, p)

\* A report with both lists non-empty for a build in which one proposition
\* was pushed twice.
C1_Witness ==
  /\ result = "Report"
  /\ satisfied_constraints # <<>>
  /\ unsatisfied_constraints # <<>>
  /\ Len(constraints) = 2
  /\ constraints[1] = constraints[2]

\* C2 as stated: whenever the check was Sat and build has returned, every
\* pushed widget has been painted exactly once, in push order, with one value
\* per declared measure in measures() order.
C2_SatPaintsEveryWidget ==
  (SatOutcome /\ Returned) =>
    /\ Len(painted) = Len(widgets)
    /\ \A j \in 1..Len(painted) :
         /\ painted[j].widget = j
         /\ painted[j].values =
              [i \in 1..Len(RectMeasures(widgets[j])) |->
                 ValueOf(RectMeasures(widgets[j])[i])]

\* C2 amended: after a Sat check the widgets are painted in push order, none
\* twice, each with one value per declared measure in measures() order, the
\* i-th being the model's value of the i-th measure and reaching the painter
\* as the matching metric; every pushed widget has been painted exactly once
\* when build returns a report, and a paint that fails leaves the later
\* widgets unpainted.
C2_PaintsInPushOrder ==
  /\ painted # <<>> => SatOutcome
  /\ Len(painted) <= Len(widgets)
  /\ \A j \in 1..Len(painted) :
       /\ painted[j].widget = j
       /\ painted[j].values =
            [i \in 1..Len(RectMeasures(widgets[j])) |->
               ValueOf(RectMeasures(widgets[j])[i])]
       /\ painted[j].metrics.left = ValueOf(widgets[j].left)
       /\ painted[j].metrics.right = ValueOf(widgets[j].right)
       /\ painted[j].metrics.top = ValueOf(widgets[j].top)
       /\ painted[j].metrics.bottom = ValueOf(widgets[j].bottom)
       /\ painted[j].metrics.width = ValueOf(widgets[j].width)
       /\ painted[j].metrics.height = ValueOf(widgets[j].height)
  /\ result = "Report" => Len(painted) = Len(widgets)
  /\ (SatOutcome /\ Returned /\ Len(painted) < Len(widgets)) =>
       /\ result = "PaintErr"
       /\ painted[Len(painted)].result = "Err"

\* Two widgets, both painted, the build returned its report.
C2_Witness ==
  /\ result = "Report"
  /\ Len(widgets) = 2
  /\ Len(painted) = 2
  /\ painted[1].result = "Ok"
  /\ painted[2].result = "Ok"

\* C3: when the check returns Unsat or Unknown, build returns the matching
\* error, no widget has been painted, there is no report, and nothing more
\* happens to that build.
C3_UnsatUnknownFail ==
  /\ [](check_res \in {"Unsat", "Unknown"} =>
          /\ pc = "Failed"
          /\ result = check_res
          /\ painted = <<>>
          /\ model = <<>>
          /\ satisfied_constraints = <<>>
          /\ unsatisfied_constraints = <<>>)
  /\ [](result \in {"Unsat", "Unknown"} => check_res = result)
  /\ [][(check_res \in {"Unsat", "Unknown"}) => vars' = vars]_vars

\* A build with two widgets whose check returned Unknown.
C3_Witness ==
  /\ check_res = "Unknown"
  /\ result = "Unknown"
  /\ Len(widgets) = 2

\* C4: a paint that fails makes build return that failure: the dispatch stops
\* at the failing widget, so later widgets are never painted; the widgets
\* before it were painted and stay painted; no report is returned.
C4_PaintFailureAborts ==
  /\ [](\A j \in 1..Len(painted) :
          painted[j].result = "Err" =>
            /\ j = Len(painted)
            /\ pc = "Failed"
            /\ result = "PaintErr"
            /\ satisfied_constraints = <<>>
            /\ unsatisfied_constraints = <<>>)
  /\ [](result = "PaintErr" =>
          /\ painted # <<>>
          /\ painted[Len(painted)].result = "Err"
          /\ \A j \in 1..Len(painted) : painted[j].widget = j
          /\ \A j \in 1..(Len(painted) - 1) : painted[j].result = "Ok")
  /\ [][SubSeq(painted', 1, Len(painted)) = painted]_vars
  /\ [][(result = "PaintErr") => vars' = vars]_vars

\* The first of two widgets failed to paint; the second was never painted.
C4_Witness ==
  /\ result = "PaintErr"
  /\ Len(widgets) = 2
  /\ Len(painted) = 1
  /\ painted[1].result = "Err"

\* The addresses of the nodes a measure or a proposition reaches.
RECURSIVE MeasureNodes(_, _), PropNodes(_, _)
MeasureNodes(ar, m) ==
  {m.variant} \cup
    CASE Node(ar, m.variant).k \in {"Unbound", "Const"} -> {}
      [] Node(ar, m.variant).k = "Select" ->
           PropNodes(ar, Node(ar, m.variant).cond)
             \cup MeasureNodes(ar, Node(ar, m.variant).left)
             \cup MeasureNodes(ar, Node(ar, m.variant).right)
      [] OTHER -> MeasureNodes(ar, Node(ar, m.variant).left)
                    \cup MeasureNodes(ar, Node(ar, m.variant).right)

PropNodes(ar, p) ==
  {p.variant} \cup
    CASE Node(ar, p.variant).k = "Not" -> PropNodes(ar, Node(ar, p.variant).that)
      [] Node(ar, p.variant).k \in {"Or", "And"} ->
           PropNodes(ar, Node(ar, p.variant).left)
             \cup PropNodes(ar, Node(ar, p.variant).right)
      [] OTHER -> MeasureNodes(ar, Node(ar, p.variant).left)
                    \cup MeasureNodes(ar, Node(ar, p.variant).right)

\* The nodes reachable from the submitted constraints and the widgets'
\* declared measures.
ReachableNodes ==
  UNION {PropNodes(arena, build_constraints[j]) :
           j \in 1..Len(build_constraints)}
    \cup UNION {MeasureNodes(arena, RectMeasures(widgets[j])[i]) :
                  j \in 1..Len(widgets), i \in 1..ConstraintsPerRect}

\* The expressions the caches hold.
CachedAsts ==
  {build_context.measure_cache[k] : k \in DOMAIN build_context.measure_cache}
    \cup {build_context.prop_cache[k] : k \in DOMAIN build_context.prop_cache}

\* C5: within one build each node is translated at most once: every solver
\* expression constructed belongs to exactly one node address, their number
\* never exceeds the nodes reachable from the constraints and measures, an
\* Unbound node has one solver variable of its own, and translating again
\* for evaluation constructs nothing.
C5_TranslatedOncePerBuild ==
  /\ [](/\ Len(build_context.asts) =
             Cardinality(DOMAIN build_context.measure_cache)
               + Cardinality(DOMAIN build_context.prop_cache)
        /\ CachedAsts = 1..Len(build_context.asts)
        /\ (DOMAIN build_context.measure_cache
              \cup DOMAIN build_context.prop_cache) \subseteq ReachableNodes
        /\ Len(build_context.asts) <= Cardinality(ReachableNodes)
        /\ \A k \in DOMAIN build_context.measure_cache :
             (Node(arena, k).k = "Unbound") <=>
               (build_context.asts[build_context.measure_cache[k]].op = "fresh")
        /\ \A k1, k2 \in DOMAIN build_context.measure_cache :
             (/\ Node(arena, k1).k = "Unbound"
              /\ Node(arena, k2).k = "Unbound"
              /\ build_context.asts[build_context.measure_cache[k1]].a =
                   build_context.asts[build_context.measure_cache[k2]].a)
               => k1 = k2
        /\ pc # "Collecting" =>
             \A j \in 1..Len(build_constraints) :
               /\ build_constraints[j].variant
                    \in DOMAIN build_context.prop_cache
               /\ soft[j].ast =
                    build_context.prop_cache[build_constraints[j].variant])
  /\ [][(pc \in {"Checking", "Painting"}) =>
          build_context' = build_context]_vars

\* A report returned for a build whose constraints and measures share nodes:
\* fewer expressions were constructed than translations were asked for.
C5_Witness ==
  /\ result = "Report"
  /\ Len(widgets) = 2
  /\ Len(constraints) = 2
  /\ constraints[1] = constraints[2]
  /\ Len(build_context.asts) = Cardinality(ReachableNodes)
  /\ Len(build_context.asts) <
       Len(build_constraints) + ConstraintsPerRect * Len(widgets)

\* The push_widget calls in call order, and what the j-th was given.
WidgetPushes == SelectSeq(pushes, LAMBDA c : c.call = "push_widget")

Given(j) == WidgetPushes[j].arg

IsUnbound(m) == NodeOf(m).k = "Unbound"

IsNonNegConst(m) == NodeOf(m).k = "Const" /\ NodeOf(m).num >= 0

\* A rectangle as with_width_and_height makes it, sizes W, H >= 0, its top
\* and left left free or set to non-negative constants.
PlainRect(r) ==
  /\ IsNonNegConst(r.width) /\ IsNonNegConst(r.height)
  /\ IsUnbound(r.right) /\ IsUnbound(r.bottom)
  /\ IsUnbound(r.left) \/ IsNonNegConst(r.left)
  /\ IsUnbound(r.top) \/ IsNonNegConst(r.top)

\* Such a rectangle alone, or several whose tops and lefts are constants,
\* and no explicit constraint.
PlainLayout ==
  /\ widgets # <<>>
  /\ constraints = <<>>
  /\ \A j \in 1..Len(widgets) :
       /\ PlainRect(widgets[j])
       /\ Len(widgets) > 1 =>
            IsNonNegConst(widgets[j].top) /\ IsNonNegConst(widgets[j].left)

\* What a plain layout's build does, apart from the sizes painted.
PlainLayoutSolves ==
  /\ check_res \in {"None", "Sat"}
  /\ Returned => result \in {"Report", "PaintErr"}
  /\ (Returned /\ \A j \in 1..Len(painted) : painted[j].result = "Ok") =>
       result = "Report"
  /\ SatOutcome =>
       \A j \in 1..Len(build_constraints) : Holds(build_constraints[j])
  /\ result = "Report" =>
       /\ unsatisfied_constraints = <<>>
       /\ satisfied_constraints = build_constraints

Squeezed(r) ==
  /\ IsConst(r.top, 0, 1)
  /\ IsConst(r.bottom, 1, 1)
  /\ NodeOf(r.height).k = "Const"
  /\ ~IsConst(r.height, 1, 1)

C8_SubmissionOrder ==
  pc # "Collecting" =>
    /\ WidgetsThenExplicit
    /\ constraints =
         [j \in 1..Len(constraints) |->
            SelectSeq(pushes, LAMBDA c : c.call = "push_constraint")[j].arg]
    /\ Len(soft) = Len(build_constraints)
    /\ \A j \in 1..Len(soft) :
         soft[j] =
           [ast |-> build_context.prop_cache[build_constraints[j].variant],
            weight |-> build_constraints[j].weight]
    /\ result = "Report" =>
         /\ satisfied_constraints =
              SelectSeq(build_constraints, LAMBDA p : Holds(p))
         /\ unsatisfied_constraints =
              SelectSeq(build_constraints, LAMBDA p : ~Holds(p))

\* A constraint was pushed between two widgets and another after them; the
\* report has both lists non-empty.
C8_Witness ==
  /\ result = "Report"
  /\ Len(pushes) = 4
  /\ pushes[1].call = "push_widget"
  /\ pushes[2].call = "push_constraint"
  /\ pushes[3].call = "push_widget"
  /\ pushes[4].call = "push_constraint"
  /\ pushes[2].arg # pushes[4].arg
  /\ satisfied_constraints # <<>>
  /\ Len(unsatisfied_constraints) >= 2

Smaller(x, y) == IF RLe(x, y) THEN x ELSE y

Larger(x, y) == IF RLe(x, y) THEN y ELSE x

\* m.min(n), m.max(n) give edges lo and hi: both are selections over m and n.
IsMinMaxOf(lo, hi, m, n) ==
  /\ NodeOf(lo).k = "Select" /\ NodeOf(hi).k = "Select"
  /\ NodeOf(lo).left = m /\ NodeOf(lo).right = n
  /\ NodeOf(hi).left = m /\ NodeOf(hi).right = n

\* A rectangle whose left and right are a.min(b) and a.max(b) and whose top
\* and bottom are u.min(v) and u.max(v).
Spanning(r) ==
  /\ NodeOf(r.left).k = "Select"
  /\ NodeOf(r.top).k = "Select"
  /\ IsMinMaxOf(r.left, r.right, NodeOf(r.left).left, NodeOf(r.left).right)
  /\ IsMinMaxOf(r.top, r.bottom, NodeOf(r.top).left, NodeOf(r.top).right)

\* lo and hi resolve to the smaller and the larger of the values of m and n.
ResolvesMinMax(lo, hi, m, n) ==
  /\ ValueOf(lo) = Smaller(ValueOf(m), ValueOf(n))
  /\ ValueOf(hi) = Larger(ValueOf(m), ValueOf(n))

\* C9: a.min(b) resolves to the smaller and a.max(b) to the larger of the
\* values of a and b, also when these are equal: for the constants 3 and 7
\* to 3 and 7, as the measures painted, and as operands of the rectangle's
\* own constraints left + width == right and top + height == bottom.
C9_MinMaxResolve ==
  SatOutcome =>
    \A j \in 1..Len(widgets) :
      Spanning(widgets[j]) =>
        /\ ResolvesMinMax(widgets[j].left, widgets[j].right,
                          NodeOf(widgets[j].left).left,
                          NodeOf(widgets[j].left).right)
        /\ ResolvesMinMax(widgets[j].top, widgets[j].bottom,
                          NodeOf(widgets[j].top).left,
                          NodeOf(widgets[j].top).right)
        /\ (Given(j).a = 3000 /\ Given(j).b = 7000) =>
             /\ ValueOf(widgets[j].left) = <<3, 1>>
             /\ ValueOf(widgets[j].right) = <<7, 1>>
        /\ Holds(build_constraints[ConstraintsPerRect * (j - 1) + 1]) <=>
             (RAdd(Smaller(ValueOf(NodeOf(widgets[j].left).left),
                           ValueOf(NodeOf(widgets[j].left).right)),
                   ValueOf(widgets[j].width))
                = Larger(ValueOf(NodeOf(widgets[j].left).left),
                         ValueOf(NodeOf(widgets[j].left).right)))
        /\ Holds(build_constraints[ConstraintsPerRect * (j - 1) + 2]) <=>
             (RAdd(Smaller(ValueOf(NodeOf(widgets[j].top).left),
                           ValueOf(NodeOf(widgets[j].top).right)),
                   ValueOf(widgets[j].height))
                = Larger(ValueOf(NodeOf(widgets[j].top).left),
                         ValueOf(NodeOf(widgets[j].top).right)))
        /\ j <= Len(painted) =>
             /\ painted[j].metrics.left = ValueOf(widgets[j].left)
             /\ painted[j].metrics.right = ValueOf(widgets[j].right)
             /\ painted[j].metrics.top = ValueOf(widgets[j].top)
             /\ painted[j].metrics.bottom = ValueOf(widgets[j].bottom)

\* A rectangle spanning the constants 3 and 7 and two equal unbound measures
\* was painted with left 3, right 7, and top, bottom the common value 1.
C9_Witness ==
  /\ result = "Report"
  /\ Len(widgets) = 1
  /\ Spanning(widgets[1])
  /\ painted[1].metrics.left = <<3, 1>>
  /\ painted[1].metrics.right = <<7, 1>>
  /\ ValueOf(NodeOf(widgets[1].top).left) = <<1, 1>>
  /\ ValueOf(NodeOf(widgets[1].top).right) = <<1, 1>>
  /\ painted[1].metrics.top = <<1, 1>>
  /\ painted[1].metrics.bottom = <<1, 1>>
  /\ unsatisfied_constraints = <<>>

\* C10 as stated: the constant made by new_const(0.125) stores a rational
\* equal to 0.125 and is painted as exactly 0.125.
C10_RoundTripsExactly ==
  \A j \in 1..Len(widgets) :
    Given(j).w = 125 =>
      /\ NodeOf(widgets[j].width).k = "Const"
      /\ NodeOf(widgets[j].width).num * 1000 = 125 * NodeOf(widgets[j].width).den
      /\ j <= Len(painted) => painted[j].metrics.width = Norm(125, 1000)

\* C10 amended: new_const(0.125) keeps two decimals: the constant stores 3/25
\* and is painted as exactly that, 0.12; from the stored rational on nothing
\* is lost: every constant size is painted as the rational its node holds.
C10_KeepsTwoDecimals ==
  \A j \in 1..Len(widgets) :
    /\ Given(j).w = 125 =>
         /\ IsConst(widgets[j].width, 3, 25)
         /\ j <= Len(painted) => painted[j].metrics.width = <<3, 25>>
    /\ (j <= Len(painted) /\ NodeOf(widgets[j].width).k = "Const") =>
         painted[j].metrics.width =
           Norm(NodeOf(widgets[j].width).num, NodeOf(widgets[j].width).den)

\* A rectangle whose width is new_const(0.125) was painted, width 3/25.
C10_Witness ==
  /\ result = "Report"
  /\ Len(widgets) = 1
  /\ Given(1).w = 125
  /\ painted[1].metrics.width = <<3, 25>>
  /\ painted[1].metrics.left = <<1, 50>>
  /\ painted[1].metrics.right = <<7, 50>>
  /\ unsatisfied_constraints = <<>>

\* ------------------------------------------------------- group aggregates
\* Most rectangles in a group, and most group_* calls in one run.
MaxGroup == 2
MaxGroupCalls == 1

\* Rectangle::measures: the six measures as a RectangleMeasures
RectangleMeasures(self) ==
  [left |-> self.left, right |-> self.right, top |-> self.top,
   bottom |-> self.bottom, width |-> self.width, height |-> self.height]

\* Err(RectangleError::EmptyGroup.into())
EmptyGroup(f) == [f EXCEPT !.err = "EmptyGroup"]

\* group.iter().map(|x| x.field).reduce(|a, b| a.min(b)), or a.max(b), from
\* the group's j-th rectangle on; the accumulator is the handle the frame
\* holds last.
RECURSIVE Reduce(_, _, _, _, _)
Reduce(f, group, field, j, op) ==
  IF j > Len(group) THEN f
  ELSE Reduce(IF op = "min" THEN min(f, Top(f), group[j][field])
                            ELSE max(f, Top(f), group[j][field]),
              group, field, j + 1, op)

\* Mutation of group_leftmost's guard: a lone rectangle taken for no group.
group_leftmost_LoneIsEmpty(f, group) ==
  IF Len(group) <= 1 THEN EmptyGroup(f)
  ELSE Reduce(Return(f, group[1].left), group, "left", 2, "min")

\* RectangleMeasures::group_leftmost
group_leftmost(f, group) ==
  IF Len(group) = 0 THEN EmptyGroup(f)
  ELSE Reduce(Return(f, group[1].left), group, "left", 2, "min")

\* RectangleMeasures::group_rightmost
group_rightmost(f, group) ==
  IF Len(group) = 0 THEN EmptyGroup(f)
  ELSE Reduce(Return(f, group[1].right), group, "right", 2, "max")

\* RectangleMeasures::group_topmost
group_topmost(f, group) ==
  IF Len(group) = 0 THEN EmptyGroup(f)
  ELSE Reduce(Return(f, group[1].top), group, "top", 2, "min")

\* RectangleMeasures::group_bottommost
group_bottommost(f, group) ==
  IF Len(group) = 0 THEN EmptyGroup(f)
  ELSE Reduce(Return(f, group[1].bottom), group, "bottom", 2, "max")

\* The accumulator (left, right, top, bottom) of group_center's reduce: the
\* four handles the frame holds last.
Acc(f) == SubSeq(f.vals, Len(f.vals) - 3, Len(f.vals))

\* The four selections min, max, min, max have just been built, each after
\* its comparison: they become the accumulator.
Pack(g) ==
  Return(Return(Return(Return(g, g.vals[Len(g.vals) - 6]),
                       g.vals[Len(g.vals) - 4]),
                g.vals[Len(g.vals) - 2]),
         g.vals[Len(g.vals)])

\* (a_l.min(b_l), a_r.max(b_r), a_t.min(b_t), a_b.max(b_b))
CenterStep(f, a, b) ==
  Pack(max(min(max(min(f, a[1], b.left), a[2], b.right), a[3], b.top),
           a[4], b.bottom))

RECURSIVE ReduceFrames(_, _, _)
ReduceFrames(f, group, j) ==
  IF j > Len(group) THEN f
  ELSE ReduceFrames(CenterStep(f, Acc(f), group[j]), group, j + 1)

\* (a + b) / 2.0: the sum, divided by the constant built after it
HalfSum(f, a, b) ==
  MeasureDiv(new_const(MeasureAdd(f, a, b), 2000),
             Top(MeasureAdd(f, a, b)),
             Top(new_const(MeasureAdd(f, a, b), 2000)))

\* Point { x, y } of the two quotients built last, x before y
MakePoint(g) == Return(g, [x |-> g.vals[Len(g.vals) - 3], y |-> Top(g)])

\* Point { x: (left + right) / 2.0, y: (top + bottom) / 2.0 } of the reduced
\* (left, right, top, bottom)
CenterOf(f) ==
  MakePoint(HalfSum(HalfSum(f, Acc(f)[1], Acc(f)[2]), Acc(f)[3], Acc(f)[4]))

\* RectangleMeasures::group_center
group_center(f, group) ==
  IF Len(group) = 0 THEN EmptyGroup(f)
  ELSE CenterOf(ReduceFrames(
         Return(Return(Return(Return(f, group[1].left), group[1].right),
                       group[1].top), group[1].bottom),
         group, 2))

\* The rectangles a caller constructs from the given shapes, in order.
RECURSIVE BuildRects(_, _, _, _)
BuildRects(ar, rects, shapes, j) ==
  IF j > Len(shapes) THEN [arena |-> ar, rects |-> rects]
  ELSE BuildRects(MakeRect(ar, shapes[j]).arena,
                  Append(rects, MakeRect(ar, shapes[j]).rect), shapes, j + 1)

\* A caller that has constructed and pushed up to MaxGroup rectangles and is
\* about to aggregate over some of them.
GroupInit ==
  \E n \in 0..MaxGroup : \E shapes \in [1..n -> Shapes] :
    \E b \in {BuildRects(<<>>, <<>>, shapes, 1)} :
      /\ arena = b.arena
      /\ widgets = b.rects
      /\ pushes = [j \in 1..n |-> [call |-> "push_widget", arg |-> shapes[j]]]
      /\ constraints = <<>>
      /\ pc = "Collecting"
      /\ build_constraints = <<>>
      /\ build_context = Z3BuildContextNew
      /\ soft = <<>>
      /\ check_res = "None"
      /\ model = <<>>
      /\ next_widget = 1
      /\ painted = <<>>
      /\ result = "None"
      /\ satisfied_constraints = <<>>
      /\ unsatisfied_constraints = <<>>

\* &[&RectangleMeasures] of the first n rectangles
Group(n) == [j \in 1..n |-> RectangleMeasures(widgets[j])]

\* A call made with a group of n rectangles that came back in frame r, its
\* Result being Ok(value) or Err(error).
GroupCall(name, n, r) ==
  /\ Len(pushes) - Len(widgets) < MaxGroupCalls
  /\ arena' = r.arena
  /\ pushes' = Append(pushes, [call |-> name, arg |-> n,
                               result |->
                                 IF r.err = "None"
                                   THEN [ok |-> TRUE, value |-> Top(r)]
                                   ELSE [ok |-> FALSE, err |-> r.err]])
  /\ UNCHANGED <<widgets, constraints, pc, build_vars>>

GroupCenter ==
  \E n \in 0..Len(widgets) :
    \E r \in {group_center(Frame(arena), Group(n))} :
      GroupCall("group_center", n, r)

GroupLeftmost ==
  \E n \in 0..Len(widgets) :
    \E r \in {group_leftmost(Frame(arena), Group(n))} :
      GroupCall("group_leftmost", n, r)

GroupRightmost ==
  \E n \in 0..Len(widgets) :
    \E r \in {group_rightmost(Frame(arena), Group(n))} :
      GroupCall("group_rightmost", n, r)

GroupTopmost ==
  \E n \in 0..Len(widgets) :
    \E r \in {group_topmost(Frame(arena), Group(n))} :
      GroupCall("group_topmost", n, r)

GroupBottommost ==
  \E n \in 0..Len(widgets) :
    \E r \in {group_bottommost(Frame(arena), Group(n))} :
      GroupCall("group_bottommost", n, r)

GroupNext ==
  \/ GroupCenter
  \/ GroupLeftmost
  \/ GroupRightmost
  \/ GroupTopmost
  \/ GroupBottommost

GroupSpec == GroupInit /\ [][GroupNext]_vars

\* A handle of a measure node the arena or the pool holds.
IsMeasureHandle(m) ==
  /\ DOMAIN m = {"variant"}
  /\ m.variant \in 0..(PoolSize + Len(arena) - 1)
  /\ NodeOf(m).k \in {"Unbound", "Const", "Add", "Sub", "Mul", "Div", "Select"}

\* C12: each of group_center, group_leftmost, group_rightmost, group_topmost
\* and group_bottommost fails with EmptyGroup if and only if its group has no
\* rectangle; with one or more rectangles it returns its aggregate, a measure
\* (or point of two measures) of the context, and no error.
C12_EmptyGroupIffNoRectangle ==
  \A j \in 1..Len(pushes) :
    pushes[j].call # "push_widget" =>
      /\ (~pushes[j].result.ok) <=> (pushes[j].arg = 0)
      /\ (~pushes[j].result.ok) => pushes[j].result.err = "EmptyGroup"
      /\ pushes[j].result.ok =>
           \A c \in {pushes[j]} :
             IF c.call = "group_center"
               THEN /\ IsMeasureHandle(c.result.value.x)
                    /\ IsMeasureHandle(c.result.value.y)
                    /\ NodeOf(c.result.value.x).k = "Div"
                    /\ NodeOf(c.result.value.y).k = "Div"
               ELSE /\ IsMeasureHandle(c.result.value)
                    /\ c.arg = 1 =>
                         c.result.value \in
                           {widgets[1].left, widgets[1].right,
                            widgets[1].top, widgets[1].bottom}
                    /\ c.arg > 1 => NodeOf(c.result.value).k = "Select"

\* group_center was given no rectangle although two exist, and failed with
\* EmptyGroup.
C12_Witness ==
  /\ Len(widgets) = 2
  /\ Len(pushes) = 3
  /\ pushes[3].call = "group_center"
  /\ pushes[3].arg = 0
  /\ ~pushes[3].result.ok
  /\ pushes[3].result.err = "EmptyGroup"

\* ------------------------------------------------------ weighted handles
\* p.with_weight(w) of the proposition just built
WithWeightTop(f, w) == Return(f, with_weight(Top(f), w))

\* p = rect.bottom.prop_lt(new_const(1.0)).with_weight(w), then
\* q = rect.right.prop_lt(new_const(1.0)).with_weight(w); the frame holds p
\* third and q last.
WeightedPair(ar, rect, w) ==
  WithWeightTop(LtTop(new_const(
    WithWeightTop(LtTop(new_const(Frame(ar), 1000), rect.bottom), w),
    1000), rect.right), w)

\* Propositions callers build with weights over a rectangle's measures.
MakeWeighted(ar, rect, kind, w) ==
  CASE kind = "lt" ->
         \* rect.bottom.prop_lt(new_const(1.0)).with_weight(w)
         WithWeightTop(MakeProp(ar, rect, "bottom_lt"), w)
    [] kind = "area" ->
         \* (rect.right * rect.bottom).prop_eq(new_const(1.0)).with_weight(w)
         WithWeightTop(MakeProp(ar, rect, "area_eq"), w)
    [] kind = "and" ->
         \* p & q
         BitAnd(WeightedPair(ar, rect, w), WeightedPair(ar, rect, w).vals[3],
                Top(WeightedPair(ar, rect, w)))
    [] kind = "or" ->
         \* p | q
         BitOr(WeightedPair(ar, rect, w), WeightedPair(ar, rect, w).vals[3],
               Top(WeightedPair(ar, rect, w)))
    [] kind = "not" ->
         \* !p
         Not(WeightedPair(ar, rect, w), WeightedPair(ar, rect, w).vals[3])
    [] kind = "and_w" ->
         \* (p & q).with_weight(w + 1)
         WithWeightTop(
           BitAnd(WeightedPair(ar, rect, w), WeightedPair(ar, rect, w).vals[3],
                  Top(WeightedPair(ar, rect, w))), w + 1)

\* LayoutContext::new, LayoutBuilder::new and the push_widget of one
\* rectangle: a placed one, or one with its four edges free.
WeightInit ==
  \E shape \in {sh \in Shapes : sh.kind = "placed"
                                  \/ (sh.kind = "sized" /\ sh.w = 1000)} :
    \E r \in {MakeRect(<<>>, shape)} :
      /\ arena = r.arena
      /\ widgets = <<r.rect>>
      /\ pushes = <<[call |-> "push_widget", arg |-> shape]>>
      /\ constraints = <<>>
      /\ pc = "Collecting"
      /\ build_constraints = <<>>
      /\ build_context = Z3BuildContextNew
      /\ soft = <<>>
      /\ check_res = "None"
      /\ model = <<>>
      /\ next_widget = 1
      /\ painted = <<>>
      /\ result = "None"
      /\ satisfied_constraints = <<>>
      /\ unsatisfied_constraints = <<>>

\* LayoutBuilder::push_constraint of a weighted proposition newly built over
\* the newest rectangle
PushWeighted ==
  /\ pc = "Collecting"
  /\ Len(constraints) < MaxConstraints
  /\ \E kind \in {"lt", "area", "and", "or", "not", "and_w"} :
     \E w \in {5, 20} :
       \E c \in {MakeWeighted(arena, widgets[Len(widgets)], kind, w)} :
         /\ arena' = c.arena
         /\ constraints' = Append(constraints, Top(c))
         /\ pushes' = Append(pushes, [call |-> "push_constraint",
                                      arg |-> Top(c), kind |-> kind,
                                      weight |-> w])
  /\ UNCHANGED <<widgets, pc, build_vars>>

\* LayoutBuilder::push_constraint of p.with_weight(w), p pushed before
PushReweighted ==
  /\ pc = "Collecting"
  /\ Len(constraints) < MaxConstraints
  /\ \E j \in 1..Len(constraints) : \E w \in {5, 20} :
       /\ constraints' = Append(constraints, with_weight(constraints[j], w))
       /\ pushes' = Append(pushes, [call |-> "push_constraint",
                                    arg |-> with_weight(constraints[j], w),
                                    kind |-> "again", weight |-> w,
                                    from |-> j])
  /\ UNCHANGED <<arena, widgets, pc, build_vars>>

WeightNext ==
  \/ PushWeighted
  \/ PushReweighted
  \/ BuildAssert
  \/ CheckSat
  \/ CheckUnsat
  \/ CheckUnknown
  \/ Paint
  \/ BuildReport

WeightSpec == WeightInit /\ [][WeightNext]_vars

\* The push_constraint calls in call order.
ConstraintPushes == SelectSeq(pushes, LAMBDA c : c.call = "push_constraint")

\* C13: the weight build soft-asserts a submitted constraint with is the
\* weight of the submitted top-level handle: 10 for a handle a comparison or
\* and/or/not produced, whatever weights its operands carried, or the value
\* last set with with_weight on it; with_weight keeps the node the handle
\* names, which is the translation cache's key, so one node submitted under
\* two weights is translated once and asserted under each weight; the
\* weights of nested propositions are asserted nowhere. The solver honours
\* the asserted weight: a constraint that contradicts a rectangle's own is
\* reported satisfied exactly when its handle outweighs the default.
C13_SoftWeightIsHandleWeight ==
  /\ constraints = [j \in 1..Len(constraints) |-> ConstraintPushes[j].arg]
  /\ \A j \in 1..Len(constraints) :
       /\ \A c \in {ConstraintPushes[j]} :
           CASE c.kind \in {"lt", "area", "again"} ->
                  c.arg.weight = c.weight
             [] c.kind = "and_w" ->
                  /\ c.arg.weight = c.weight + 1
                  /\ NodeOf(c.arg).k = "And"
                  /\ NodeOf(c.arg).left.weight = c.weight
                  /\ NodeOf(c.arg).right.weight = c.weight
             [] c.kind \in {"and", "or"} ->
                  /\ c.arg.weight = DefaultWeight
                  /\ NodeOf(c.arg).k \in {"And", "Or"}
                  /\ NodeOf(c.arg).left.weight = c.weight
                  /\ NodeOf(c.arg).right.weight = c.weight
             [] c.kind = "not" ->
                  /\ c.arg.weight = DefaultWeight
                  /\ NodeOf(c.arg).k = "Not"
                  /\ NodeOf(c.arg).that.weight = c.weight
       /\ ConstraintPushes[j].kind = "again" =>
            /\ constraints[j].variant =
                 constraints[ConstraintPushes[j].from].variant
            /\ pc # "Collecting" =>
                 soft[ConstraintsPerRect * Len(widgets) + j].ast =
                   soft[ConstraintsPerRect * Len(widgets)
                          + ConstraintPushes[j].from].ast
  /\ pc # "Collecting" =>
       /\ Len(soft) = ConstraintsPerRect * Len(widgets) + Len(constraints)
       /\ \A i \in 1..(ConstraintsPerRect * Len(widgets)) :
            soft[i].weight = DefaultWeight
       /\ \A j \in 1..Len(constraints) :
            soft[ConstraintsPerRect * Len(widgets) + j] =
              [ast |-> build_context.prop_cache[constraints[j].variant],
               weight |-> constraints[j].weight]
  /\ (/\ result = "Report"
      /\ Len(constraints) = 1
      /\ ConstraintPushes[1].kind = "lt"
      /\ IsConst(widgets[1].top, 0, 1)) =>
       \* bottom < 1 against top + height == bottom, asserted at 10
       (constraints[1] \in Range(satisfied_constraints)) <=>
         (constraints[1].weight > DefaultWeight)

\* One comparison was submitted under weight 20 and again under weight 5; a
\* conjunction of operands weighted 20 would have been asserted at 10. The
\* build asserted the two at 20 and 5 over one translation and returned its
\* report.
C13_Witness ==
  /\ result = "Report"
  /\ Len(constraints) = 2
  /\ ConstraintPushes[1].kind = "lt"
  /\ ConstraintPushes[2].kind = "again"
  /\ soft[ConstraintsPerRect + 1].weight = 20
  /\ soft[ConstraintsPerRect + 2].weight = 5
  /\ soft[ConstraintsPerRect + 1].ast = soft[ConstraintsPerRect + 2].ast
  /\ constraints[1] \in Range(satisfied_constraints)
  /\ unsatisfied_constraints # <<>>

\* --------------------------------------------------------- painted floats
\* An f64 has MantissaBits bits after its leading one. A painted value is
\* held as the pair num/den whose quotient the float is nearest to; F64Err
\* tells the two apart.
MantissaBits == 52

\* 2^k modulo d
RECURSIVE Pow2Mod(_, _)
Pow2Mod(k, d) == IF k = 0 THEN 1 % d ELSE (2 * Pow2Mod(k - 1, d)) % d

\* The exponent of the leading bit of n/d, n and d positive.
RECURSIVE Log2Floor(_, _)
Log2Floor(n, d) ==
  IF n >= 2 * d THEN Log2Floor(n, 2 * d) + 1
  ELSE IF n < d THEN Log2Floor(2 * n, d) - 1
  ELSE 0

\* num as f64 / den as f64, less num/den, in units of 2^-(MantissaBits + 8):
\* with k the binary places of the float, the quotient is rounded to the
\* nearest multiple of 2^-k, which drops the remainder of num * 2^k by den.
F64Err(x) ==
  IF x[1] = 0 THEN <<0, 1>>
  ELSE LET k == MantissaBits - Log2Floor(Abs(x[1]), x[2])
           r == (Abs(x[1]) * Pow2Mod(k, x[2])) % x[2]
           rho == IF 2 * r > x[2] THEN r - x[2] ELSE r
       IN  Norm((IF x[1] < 0 THEN rho ELSE 0 - rho)
                  * 2^(MantissaBits + 8 - k), x[2])

\* What paint was handed for the measure node m, as <<num/den, excess>>; the
\* excess is taken as zero when rounded is FALSE.
PaintedAs(m, rounded) ==
  {<<painted[ji[1]].values[ji[2]],
     IF rounded THEN F64Err(painted[ji[1]].values[ji[2]]) ELSE <<0, 1>>>> :
     ji \in {ji \in (1..Len(painted)) \X (1..ConstraintsPerRect) :
               RectMeasures(widgets[ji[1]])[ji[2]].variant = m.variant}}

\* a < b for values <<quotient, excess>>: the excess decides between equal
\* quotients only.
FloatLt(a, b) == RLt(a[1], b[1]) \/ (REq(a[1], b[1]) /\ RLt(a[2], b[2]))

\* A measure and a proposition evaluated with every painted measure replaced
\* by what paint was handed for it; the other nodes keep their meaning. A
\* product carries the excess of its factors to first order.
RECURSIVE FloatOf(_, _), HoldsPainted(_, _)
FloatOf(m, rounded) ==
  IF PaintedAs(m, rounded) # {}
    THEN CHOOSE v \in PaintedAs(m, rounded) : TRUE
  ELSE CASE NodeOf(m).k = "Const" ->
              <<Norm(NodeOf(m).num, NodeOf(m).den), <<0, 1>>>>
         [] NodeOf(m).k = "Unbound" -> <<ValueOf(m), <<0, 1>>>>
         [] NodeOf(m).k = "Add" ->
              <<RAdd(FloatOf(NodeOf(m).left, rounded)[1],
                     FloatOf(NodeOf(m).right, rounded)[1]),
                RAdd(FloatOf(NodeOf(m).left, rounded)[2],
                     FloatOf(NodeOf(m).right, rounded)[2])>>
         [] NodeOf(m).k = "Sub" ->
              <<RSub(FloatOf(NodeOf(m).left, rounded)[1],
                     FloatOf(NodeOf(m).right, rounded)[1]),
                RSub(FloatOf(NodeOf(m).left, rounded)[2],
                     FloatOf(NodeOf(m).right, rounded)[2])>>
         [] NodeOf(m).k = "Mul" ->
              <<RMul(FloatOf(NodeOf(m).left, rounded)[1],
                     FloatOf(NodeOf(m).right, rounded)[1]),
                RAdd(RMul(FloatOf(NodeOf(m).left, rounded)[1],
                          FloatOf(NodeOf(m).right, rounded)[2]),
                     RMul(FloatOf(NodeOf(m).left, rounded)[2],
                          FloatOf(NodeOf(m).right, rounded)[1]))>>
         [] NodeOf(m).k = "Div" ->
              <<RDiv(FloatOf(NodeOf(m).left, rounded)[1],
                     FloatOf(NodeOf(m).right, rounded)[1]),
                RDiv(FloatOf(NodeOf(m).left, rounded)[2],
                     FloatOf(NodeOf(m).right, rounded)[1])>>
         [] NodeOf(m).k = "Select" ->
              IF HoldsPainted(NodeOf(m).cond, rounded)
                THEN FloatOf(NodeOf(m).left, rounded)
                ELSE FloatOf(NodeOf(m).right, rounded)

HoldsPainted(p, rounded) ==
  CASE NodeOf(p).k = "Not" -> ~HoldsPainted(NodeOf(p).that, rounded)
    [] NodeOf(p).k = "And" -> /\ HoldsPainted(NodeOf(p).left, rounded)
                              /\ HoldsPainted(NodeOf(p).right, rounded)
    [] NodeOf(p).k = "Or" -> \/ HoldsPainted(NodeOf(p).left, rounded)
                             \/ HoldsPainted(NodeOf(p).right, rounded)
    [] NodeOf(p).k = "Eq" -> FloatOf(NodeOf(p).left, rounded) =
                               FloatOf(NodeOf(p).right, rounded)
    [] NodeOf(p).k = "Lt" -> FloatLt(FloatOf(NodeOf(p).left, rounded),
                                     FloatOf(NodeOf(p).right, rounded))
    [] NodeOf(p).k = "Le" -> ~FloatLt(FloatOf(NodeOf(p).right, rounded),
                                      FloatOf(NodeOf(p).left, rounded))
    [] NodeOf(p).k = "Gt" -> FloatLt(FloatOf(NodeOf(p).right, rounded),
                                     FloatOf(NodeOf(p).left, rounded))
    [] NodeOf(p).k = "Ge" -> ~FloatLt(FloatOf(NodeOf(p).left, rounded),
                                      FloatOf(NodeOf(p).right, rounded))

\* Every float paint was handed for a node p reaches is its quotient exactly.
PaintedExactly(p) ==
  \A a \in PropNodes(arena, p) :
    \A v \in PaintedAs([variant |-> a], TRUE) : v[2] = <<0, 1>>

\* C14 as stated: when build returns a report, every constraint listed as
\* satisfied evaluates to true and every constraint listed as unsatisfied to
\* false, once its measures are replaced by the values handed to paint for
\* those measure nodes.
C14_PaintedValuesAgreeWithReport ==
  result = "Report" =>
    /\ \A p \in Range(satisfied_constraints) : HoldsPainted(p, TRUE)
    /\ \A p \in Range(unsatisfied_constraints) : ~HoldsPainted(p, TRUE)

\* C14 amended: when build returns a report, the painted values and the
\* report come from one model and one translation context: each value handed
\* to paint is the float nearest the rational that model gives the measure's
\* one translation, and a constraint is listed as satisfied when it is true,
\* as unsatisfied when it is false, of those rationals. Of the floats
\* themselves this holds for the constraints whose painted measures are all
\* exactly representable; a float that is not its rational can make an
\* equality listed as satisfied false.
C14_ModelValuesAgreeWithReport ==
  result = "Report" =>
    /\ \A j \in 1..Len(painted) : \A i \in 1..ConstraintsPerRect :
         painted[j].values[i] = ValueOf(RectMeasures(widgets[j])[i])
    /\ \A p \in Range(satisfied_constraints) :
         /\ Holds(p)
         /\ HoldsPainted(p, FALSE)
         /\ PaintedExactly(p) => HoldsPainted(p, TRUE)
    /\ \A p \in Range(unsatisfied_constraints) :
         /\ ~Holds(p)
         /\ ~HoldsPainted(p, FALSE)
         /\ PaintedExactly(p) => ~HoldsPainted(p, TRUE)
    /\ \A a \in ReachableNodes :
         \* no product or quotient of two inexact floats is evaluated
         Node(arena, a).k \in {"Mul", "Div"} =>
           FloatOf(Node(arena, a).right, TRUE)[2] = <<0, 1>>

\* Two rectangles were painted, one of them with the floats nearest 0.02,
\* 0.12 and 0.14, and the report lists constraints on both sides.
C14_Witness ==
  /\ result = "Report"
  /\ Len(widgets) = 2
  /\ Len(painted) = 2
  /\ \E j \in 1..2 : /\ painted[j].metrics.left = <<1, 50>>
                     /\ painted[j].metrics.width = <<3, 25>>
                     /\ painted[j].metrics.right = <<7, 50>>
                     /\ F64Err(painted[j].metrics.right) # <<0, 1>>
  /\ satisfied_constraints # <<>>
  /\ unsatisfied_constraints # <<>>

\* ----------------------------------------------------- nested rectangles
\* self compared with the constant just built
GtTop(f, self) == prop_gt(f, self, Top(f))

\* The loop body with its first comparison turned round: the rectangle's
\* left below the frame's.
NestProps_LeftOutside(f, last) ==
  GtTop(new_const(GtTop(new_const(
    prop_lt(prop_gt(prop_lt(prop_lt(unbound(f),
      unbound(f).vals[1], last[1]),
      unbound(f).vals[2], last[2]),
      unbound(f).vals[3], last[3]),
      unbound(f).vals[4], last[4]),
    3000), unbound(f).vals[5]), 3000), unbound(f).vals[6])

\* The loop body up to push_widget: Rectangle::unbound, then
\* rect.left.prop_gt(last_frame.0), rect.right.prop_lt(last_frame.1),
\* rect.top.prop_gt(last_frame.2), rect.bottom.prop_lt(last_frame.3),
\* rect.width.prop_gt(new_const(3.0)), rect.height.prop_gt(new_const(3.0)),
\* which the frame holds 7th to 10th, 12th and 14th.
NestProps(f, last) ==
  GtTop(new_const(GtTop(new_const(
    prop_lt(prop_gt(prop_lt(prop_gt(unbound(f),
      unbound(f).vals[1], last[1]),
      unbound(f).vals[2], last[2]),
      unbound(f).vals[3], last[3]),
      unbound(f).vals[4], last[4]),
    3000), unbound(f).vals[5]), 3000), unbound(f).vals[6])

\* LayoutContext::new, LayoutBuilder::new and last_frame, the constants
\* -100, 100, -100, 100
NestInit ==
  /\ arena = new_const(new_const(new_const(new_const(Frame(<<>>),
               0 - 100000), 100000), 0 - 100000), 100000).arena
  /\ widgets = <<>>
  /\ constraints = <<>>
  /\ pushes = <<>>
  /\ pc = "Collecting"
  /\ build_constraints = <<>>
  /\ build_context = Z3BuildContextNew
  /\ soft = <<>>
  /\ check_res = "None"
  /\ model = <<>>
  /\ next_widget = 1
  /\ painted = <<>>
  /\ result = "None"
  /\ satisfied_constraints = <<>>
  /\ unsatisfied_constraints = <<>>

\* One turn of the loop: a new unbound rectangle strictly inside last_frame
\* (the constant frame, then the edges of the rectangle before), wider and
\* higher than 3, its six constraints pushed and then the rectangle.
NestStep ==
  /\ pc = "Collecting"
  /\ Len(widgets) < MaxNest
  /\ \E f \in {NestProps(Frame(arena),
                 IF widgets = <<>>
                   THEN [j \in 1..4 |-> [variant |-> PoolSize + j - 1]]
                   ELSE <<widgets[Len(widgets)].left,
                          widgets[Len(widgets)].right,
                          widgets[Len(widgets)].top,
                          widgets[Len(widgets)].bottom>>)} :
       /\ arena' = f.arena
       /\ constraints' = constraints \o
            <<f.vals[7], f.vals[8], f.vals[9], f.vals[10], f.vals[12],
              f.vals[14]>>
       /\ widgets' = Append(widgets, RectOf(f, <<1, 2, 3, 4, 5, 6>>,
                                            "painter").rect)
       /\ pushes' = pushes \o
            [j \in 1..7 |->
               IF j = 7 THEN [call |-> "push_widget", arg |-> "unbound"]
               ELSE [call |-> "push_constraint",
                     arg |-> f.vals[IF j <= 4 THEN 6 + j ELSE 2 * j + 2]]]
  /\ UNCHANGED <<pc, build_vars>>

\* The loop, then build. The nest's constraints are linear, which leaves
\* opt.check no answer but Sat.
NestNext ==
  \/ NestStep
  \/ BuildAssert
  \/ CheckSat
  \/ Paint
  \/ BuildReport

NestSpec == NestInit /\ [][NestNext]_vars

\* C11: rectangles made by Rectangle::unbound and nested, each strictly
\* inside the one before (left > previous left, right < previous right,
\* top > previous top, bottom < previous bottom, the first inside the
\* constant frame -100..100), each with width > 3 and height > 3, solve: the
\* constraints are linear, the check is Sat, its model satisfies every one of
\* them, the rectangles are painted nested and larger than 3, and the report,
\* returned unless a painter fails, has no unsatisfied constraint; for every
\* number of rectangles up to MaxNest.
C11_NestSolvesClean ==
  /\ pc # "Collecting" =>
       /\ Len(build_constraints) = 2 * ConstraintsPerRect * Len(widgets)
       /\ Decidable(build_context.asts, soft)
  /\ check_res \in {"None", "Sat"}
  /\ SatOutcome =>
       \A j \in 1..Len(build_constraints) : Holds(build_constraints[j])
  /\ \A j \in 1..Len(painted) :
       /\ RLt(<<3, 1>>, painted[j].metrics.width)
       /\ RLt(<<3, 1>>, painted[j].metrics.height)
       /\ RLt(<<0 - 100, 1>>, painted[j].metrics.left)
       /\ RLt(painted[j].metrics.right, <<100, 1>>)
       /\ RLt(<<0 - 100, 1>>, painted[j].metrics.top)
       /\ RLt(painted[j].metrics.bottom, <<100, 1>>)
       /\ j > 1 =>
            /\ RLt(painted[j - 1].metrics.left, painted[j].metrics.left)
            /\ RLt(painted[j].metrics.right, painted[j - 1].metrics.right)
            /\ RLt(painted[j - 1].metrics.top, painted[j].metrics.top)
            /\ RLt(painted[j].metrics.bottom, painted[j - 1].metrics.bottom)
  /\ Returned => result \in {"Report", "PaintErr"}
  /\ (Returned /\ \A j \in 1..Len(painted) : painted[j].result = "Ok") =>
       result = "Report"
  /\ result = "Report" =>
       /\ unsatisfied_constraints = <<>>
       /\ satisfied_constraints = build_constraints

\* Two rectangles, the second inside the first, were painted and the report
\* lists all twenty-four constraints as satisfied.
C11_Witness ==
  /\ result = "Report"
  /\ Len(widgets) = 2
  /\ Len(painted) = 2
  /\ RLt(painted[1].metrics.left, painted[2].metrics.left)
  /\ RLt(painted[2].metrics.bottom, painted[1].metrics.bottom)
  /\ Len(satisfied_constraints) = 24
  /\ unsatisfied_constraints = <<>>

====
